---------------------------- MODULE Spec2Model ----------------------------
(***************************************************************************)
(* gopack: publish one module version into a GOPROXY directory layout.     *)
(* The model follows src/gopack.go lines 1-210 (the variant of run() that  *)
(* maintains <module>/@v/list): run(), updateListFile(), writeFileAtomic() *)
(* and the golang.org/x/mod/semver functions they call.  File contents and *)
(* version strings are real strings; an invocation is a process that moves *)
(* through the statements of run() one filesystem operation at a time.     *)
(***************************************************************************)
EXTENDS Integers, Sequences, FiniteSets, TLC

(***************************************************************************)
(* Byte strings.  Go indexes strings from 0 and slices them half-open;     *)
(* At and Slice keep that convention so the operators below read like the  *)
(* Go they model.                                                          *)
(***************************************************************************)
At(v, i) == SubSeq(v, i + 1, i + 1)

Slice(v, a, b) == SubSeq(v, a + 1, b)

From(v, a) == SubSeq(v, a + 1, Len(v))

\* The bytes the model uses, in ASCII order.
Alphabet == "\n\r !+-./0123456789ABCDEFGHIJKLMNOPQRSTUVWXYZabcdefghijklmnopqrstuvwxyz"

Code(c) == CHOOSE i \in 1..Len(Alphabet) : SubSeq(Alphabet, i, i) = c

IsDigit(c) == c \in {"0", "1", "2", "3", "4", "5", "6", "7", "8", "9"}

IsUpper(c) == Len(c) = 1 /\ Code("A") <= Code(c) /\ Code(c) <= Code("Z")

IsLower(c) == Len(c) = 1 /\ Code("a") <= Code(c) /\ Code(c) <= Code("z")

ToLower(c) == IF IsUpper(c)
              THEN SubSeq(Alphabet, Code(c) + 26, Code(c) + 26)
              ELSE c

\* Go's x < y on strings: bytewise lexicographic.
RECURSIVE StrLess(_, _)
StrLess(x, y) ==
  IF y = "" THEN FALSE
  ELSE IF x = "" THEN TRUE
  ELSE IF At(x, 0) = At(y, 0) THEN StrLess(From(x, 1), From(y, 1))
  ELSE Code(At(x, 0)) < Code(At(y, 0))

(***************************************************************************)
(* golang.org/x/mod/semver, as run() and updateListFile() use it.          *)
(***************************************************************************)
\* The number of leading ASCII digits of v from index i on (the loops
\* "for i < len(v) && '0' <= v[i] && v[i] <= '9' { i++ }").
RECURSIVE DigitsEnd(_, _)
DigitsEnd(v, i) ==
  IF i < Len(v) /\ IsDigit(At(v, i)) THEN DigitsEnd(v, i + 1) ELSE i

\* semver.parseInt
parseInt(v) ==
  IF v = "" THEN [t |-> "", rest |-> "", ok |-> FALSE]
  ELSE IF ~IsDigit(At(v, 0)) THEN [t |-> "", rest |-> "", ok |-> FALSE]
  ELSE LET i == DigitsEnd(v, 1)
       IN  IF At(v, 0) = "0" /\ i # 1
           THEN [t |-> "", rest |-> "", ok |-> FALSE]
           ELSE [t |-> Slice(v, 0, i), rest |-> From(v, i), ok |-> TRUE]

\* semver.isIdentChar
isIdentChar(c) == IsUpper(c) \/ IsLower(c) \/ IsDigit(c) \/ c = "-"

\* semver.isBadNum
isBadNum(v) ==
  LET i == DigitsEnd(v, 0) IN i = Len(v) /\ i > 1 /\ At(v, 0) = "0"

\* semver.isNum
isNum(v) == DigitsEnd(v, 0) = Len(v)

\* The loop of semver.parsePrerelease from index i with the current
\* identifier starting at start: the index where it stops, or -1 when it
\* rejects.
RECURSIVE PrereleaseLoop(_, _, _)
PrereleaseLoop(v, i, start) ==
  IF i < Len(v) /\ At(v, i) # "+"
  THEN IF ~isIdentChar(At(v, i)) /\ At(v, i) # "." THEN -1
       ELSE IF At(v, i) = "."
            THEN IF start = i \/ isBadNum(Slice(v, start, i)) THEN -1
                 ELSE PrereleaseLoop(v, i + 1, i + 1)
            ELSE PrereleaseLoop(v, i + 1, start)
  ELSE IF start = i \/ isBadNum(Slice(v, start, i)) THEN -1 ELSE i

\* semver.parsePrerelease
parsePrerelease(v) ==
  IF v = "" \/ At(v, 0) # "-" THEN [t |-> "", rest |-> "", ok |-> FALSE]
  ELSE LET i == PrereleaseLoop(v, 1, 1)
       IN  IF i = -1 THEN [t |-> "", rest |-> "", ok |-> FALSE]
           ELSE [t |-> Slice(v, 0, i), rest |-> From(v, i), ok |-> TRUE]

\* The loop of semver.parseBuild.
RECURSIVE BuildLoop(_, _, _)
BuildLoop(v, i, start) ==
  IF i < Len(v)
  THEN IF ~isIdentChar(At(v, i)) /\ At(v, i) # "." THEN -1
       ELSE IF At(v, i) = "."
            THEN IF start = i THEN -1 ELSE BuildLoop(v, i + 1, i + 1)
            ELSE BuildLoop(v, i + 1, start)
  ELSE IF start = i THEN -1 ELSE i

\* semver.parseBuild
parseBuild(v) ==
  IF v = "" \/ At(v, 0) # "+" THEN [t |-> "", rest |-> "", ok |-> FALSE]
  ELSE LET i == BuildLoop(v, 1, 1)
       IN  IF i = -1 THEN [t |-> "", rest |-> "", ok |-> FALSE]
           ELSE [t |-> Slice(v, 0, i), rest |-> From(v, i), ok |-> TRUE]

BadParse == [major |-> "", minor |-> "", patch |-> "", prerelease |-> "",
             build |-> "", ok |-> FALSE]

NoPart(rest) == [t |-> "", rest |-> rest, ok |-> TRUE]

StartsWith(v, c) == Len(v) > 0 /\ At(v, 0) = c

\* semver.parse after the build metadata: nothing may follow.
parseEnd(ma, mi, pa, pre, bld) ==
  IF ~bld.ok \/ bld.rest # "" THEN BadParse
  ELSE [major |-> ma.t, minor |-> mi.t, patch |-> pa.t,
        prerelease |-> pre.t, build |-> bld.t, ok |-> TRUE]

\* semver.parse after the pre-release: an optional "+build".
parseAfterPre(ma, mi, pa, pre) ==
  IF ~pre.ok THEN BadParse
  ELSE parseEnd(ma, mi, pa, pre,
                IF StartsWith(pre.rest, "+") THEN parseBuild(pre.rest)
                ELSE NoPart(pre.rest))

\* semver.parse after the patch number: an optional "-prerelease".
parseAfterPatch(ma, mi, pa) ==
  IF ~pa.ok THEN BadParse
  ELSE parseAfterPre(ma, mi, pa,
                     IF StartsWith(pa.rest, "-") THEN parsePrerelease(pa.rest)
                     ELSE NoPart(pa.rest))

\* semver.parse after the minor number: vMAJOR.MINOR is a shorthand.
parseAfterMinor(ma, mi) ==
  IF ~mi.ok THEN BadParse
  ELSE IF mi.rest = ""
  THEN [BadParse EXCEPT !.major = ma.t, !.minor = mi.t, !.patch = "0",
                        !.ok = TRUE]
  ELSE IF At(mi.rest, 0) # "." THEN BadParse
  ELSE parseAfterPatch(ma, mi, parseInt(From(mi.rest, 1)))

\* semver.parse after the major number: vMAJOR is a shorthand.
parseAfterMajor(ma) ==
  IF ~ma.ok THEN BadParse
  ELSE IF ma.rest = ""
  THEN [BadParse EXCEPT !.major = ma.t, !.minor = "0", !.patch = "0",
                        !.ok = TRUE]
  ELSE IF At(ma.rest, 0) # "." THEN BadParse
  ELSE parseAfterMinor(ma, parseInt(From(ma.rest, 1)))

\* semver.parse
parse(v) ==
  IF v = "" \/ At(v, 0) # "v" THEN BadParse
  ELSE parseAfterMajor(parseInt(From(v, 1)))

\* semver.IsValid
IsValid(v) == parse(v).ok

\* semver.compareInt
compareInt(x, y) ==
  IF x = y THEN 0
  ELSE IF Len(x) < Len(y) THEN -1
  ELSE IF Len(x) > Len(y) THEN 1
  ELSE IF StrLess(x, y) THEN -1 ELSE 1

\* semver.nextIdent: the length of the identifier x starts with.
RECURSIVE IdentEnd(_, _)
IdentEnd(x, i) ==
  IF i < Len(x) /\ At(x, i) # "." THEN IdentEnd(x, i + 1) ELSE i

\* semver.comparePrerelease, the order of two different identifiers:
\* numeric before alphanumeric, numeric by value, else bytewise.
compareIdent(dx, dy, nx, ny) ==
  IF nx # ny THEN (IF nx THEN -1 ELSE 1)
  ELSE IF nx /\ Len(dx) < Len(dy) THEN -1
  ELSE IF nx /\ Len(dx) > Len(dy) THEN 1
  ELSE IF StrLess(dx, dy) THEN -1 ELSE 1

\* semver.comparePrerelease, the loop (entered with x # y, both non-empty):
\* skip the "-" or ".", then compare the next identifiers.
RECURSIVE PrereleaseCmpLoop(_, _)
PrereleaseCmpIdents(x1, y1, ex, ey) ==
  IF Slice(x1, 0, ex) # Slice(y1, 0, ey)
  THEN compareIdent(Slice(x1, 0, ex), Slice(y1, 0, ey),
                    isNum(Slice(x1, 0, ex)), isNum(Slice(y1, 0, ey)))
  ELSE PrereleaseCmpLoop(From(x1, ex), From(y1, ey))

PrereleaseCmpLoop(x, y) ==
  IF x # "" /\ y # ""
  THEN PrereleaseCmpIdents(From(x, 1), From(y, 1),
                           IdentEnd(From(x, 1), 0), IdentEnd(From(y, 1), 0))
  ELSE IF x = "" THEN -1 ELSE 1

comparePrerelease(x, y) ==
  IF x = y THEN 0
  ELSE IF x = "" THEN 1
  ELSE IF y = "" THEN -1
  ELSE PrereleaseCmpLoop(x, y)

\* The first of the comparisons that is not 0.
FirstDifference(cs) ==
  IF \E i \in 1..Len(cs) : cs[i] # 0
  THEN cs[CHOOSE i \in 1..Len(cs) :
            cs[i] # 0 /\ \A j \in 1..(i - 1) : cs[j] = 0]
  ELSE 0

\* semver.Compare on parsed versions: an invalid version is less than a
\* valid one; build metadata is ignored.
compareParsed(pv, pw) ==
  IF ~pv.ok /\ ~pw.ok THEN 0
  ELSE IF ~pv.ok THEN -1
  ELSE IF ~pw.ok THEN 1
  ELSE FirstDifference(<<compareInt(pv.major, pw.major),
                         compareInt(pv.minor, pw.minor),
                         compareInt(pv.patch, pw.patch),
                         comparePrerelease(pv.prerelease, pw.prerelease)>>)

\* semver.Compare
Compare(v, w) == compareParsed(parse(v), parse(w))

(***************************************************************************)
(* Bounds of the model and constants of the program.                       *)
(***************************************************************************)
\* Invocations of the tool in one behaviour.
MaxRuns == 2

\* Injected faults (a failing filesystem call, or a kill) in one behaviour.
MaxFaults == 1

\* Lines of a list file that exists before the first invocation.
MaxPriorLines == 3

\* Invocations in a behaviour of SpecPublish (valid flags only).
PublishRuns == 4

dirPerm == 493      \* 0o755

filePerm == 420     \* 0o644

TempPerm == 384     \* 0o600, the mode os.CreateTemp gives a new file

Procs == {1, 2}

(***************************************************************************)
(* The inputs.  A source tree is what -src names: its go.mod, if any.      *)
(***************************************************************************)
NoFile == "<absent>"

\* os.ReadFile(<src>/go.mod) for the source trees of the model.
GoModOf(src) ==
  CASE src = "a"        -> "module ex.io/M\n"
    [] src = "b"        -> "module ex.io/M\n\n"
    [] src = "badmod"   -> "junk\n"
    [] src = "nomodule" -> "go 1\n"
    [] src = "badpath"  -> "module M\n"
    [] OTHER            -> NoFile

Srcs == {"", "a", "b", "nomod", "badmod", "nomodule", "badpath"}

Versions == {"", "1.2.3", "v1.2", "v1.0.0", "v1.2.0", "v2.0.0-beta"}

Outs == {"", "out"}

Flags(src, version, out) == [src |-> src, version |-> version, out |-> out]

\* The command lines of the model: every version with the tree "a", and
\* every other tree and an empty -out with one version.
Invocations ==
  {Flags("a", v, "out") : v \in Versions}
    \cup {Flags(s, "v1.0.0", "out") : s \in Srcs}
    \cup {Flags("a", "v1.0.0", o) : o \in Outs}

\* The index of the first "\n" of s at or after i, or Len(s) when none.
RECURSIVE LineEnd(_, _)
LineEnd(s, i) ==
  IF i < Len(s) /\ At(s, i) # "\n" THEN LineEnd(s, i + 1) ELSE i

\* modfile.Parse, for the go.mod files of the model: the module directive's
\* path ("" when the file has none), or a parse error.
ModfileParse(bytes) ==
  IF Len(bytes) >= 7 /\ Slice(bytes, 0, 7) = "module "
  THEN [ok |-> TRUE, path |-> Slice(bytes, 7, LineEnd(bytes, 7))]
  ELSE IF Len(bytes) >= 3 /\ Slice(bytes, 0, 3) = "go "
  THEN [ok |-> TRUE, path |-> ""]
  ELSE [ok |-> FALSE, path |-> ""]

\* module.escapeString: an upper-case letter becomes "!" and its lower case.
RECURSIVE escapeString(_)
escapeString(s) ==
  IF s = "" THEN ""
  ELSE IF IsUpper(At(s, 0))
       THEN "!" \o ToLower(At(s, 0)) \o escapeString(From(s, 1))
       ELSE At(s, 0) \o escapeString(From(s, 1))

RECURSIVE HasDotBeforeSlash(_)
HasDotBeforeSlash(s) ==
  IF s = "" \/ At(s, 0) = "/" THEN FALSE
  ELSE IF At(s, 0) = "." THEN TRUE
  ELSE HasDotBeforeSlash(From(s, 1))

\* module.EscapePath: CheckPath (here: the first path element must hold a
\* dot, and "!" is not allowed), then escapeString.
EscapePath(path) ==
  IF HasDotBeforeSlash(path) /\ \A i \in 0..(Len(path) - 1) : At(path, i) # "!"
  THEN [ok |-> TRUE, s |-> escapeString(path)]
  ELSE [ok |-> FALSE, s |-> ""]

\* module.EscapeVersion: checkElem (a file-name element: not empty, no
\* leading or trailing dot, no "/" or "!"), then escapeString.
EscapeVersion(v) ==
  IF /\ v # ""
     /\ At(v, 0) # "."
     /\ At(v, Len(v) - 1) # "."
     /\ \A i \in 0..(Len(v) - 1) : At(v, i) \notin {"!", "/", "\n", "\r", " "}
  THEN [ok |-> TRUE, s |-> escapeString(v)]
  ELSE [ok |-> FALSE, s |-> ""]

\* json.Marshal(info{Version, Time}) followed by '\n' (lines 94-98); the
\* instant is the model's clock reading.
InfoBytes(version, t) ==
  "{\"Version\":\"" \o version \o "\",\"Time\":\"" \o ToString(t) \o "\"}\n"

\* zip.CreateFromDir: the canonical archive, a function of the module
\* version and the source tree.
ZipBytes(modPath, version, src) ==
  "zip:" \o modPath \o "@" \o version \o ":" \o src

(***************************************************************************)
(* updateListFile's pure steps.                                            *)
(***************************************************************************)
\* bufio.ScanLines' dropCR.
dropCR(l) ==
  IF Len(l) > 0 /\ At(l, Len(l) - 1) = "\r" THEN Slice(l, 0, Len(l) - 1) ELSE l

\* The tokens bufio.Scanner yields with ScanLines: the text between
\* newlines, a final unterminated line included.
RECURSIVE ScanLines(_)
ScanLines(data) ==
  IF data = "" THEN <<>>
  ELSE LET e == LineEnd(data, 0)
       IN  <<dropCR(Slice(data, 0, e))>> \o
           (IF e < Len(data) THEN ScanLines(From(data, e + 1)) ELSE <<>>)

\* A mutant of KeepValid: only blank lines are skipped.
KeepNonBlank(ls) == SelectSeq(ls, LAMBDA l : l # "")

\* Lines 148-157: skip blank lines, keep the lines semver.IsValid accepts.
RECURSIVE KeepValid(_)
KeepValid(ls) ==
  IF ls = <<>> THEN <<>>
  ELSE IF Head(ls) = "" THEN KeepValid(Tail(ls))
  ELSE IF IsValid(Head(ls)) THEN <<Head(ls)>> \o KeepValid(Tail(ls))
  ELSE KeepValid(Tail(ls))

ReadExisting(data) == KeepValid(ScanLines(data))

\* A mutant of InsertIfMissing: the new version is appended unseen.
InsertAlways(existing, newVer) == Append(existing, newVer)

\* Lines 165-172: append newVer unless a line equal to it is there.
InsertIfMissing(existing, newVer) ==
  IF \E i \in 1..Len(existing) : existing[i] = newVer
  THEN existing
  ELSE Append(existing, newVer)

\* A mutant of Less: the comparison is the wrong way round.
LessReversed(a, b) == Compare(a, b) > 0

\* Line 176: the less function handed to sort.Slice.
Less(a, b) == Compare(a, b) < 0

\* The inner loop of insertion sort: data[j] sinks while it is less than
\* its left neighbour.
RECURSIVE Sink(_, _)
Sink(s, j) ==
  IF j > 1 /\ Less(s[j], s[j - 1])
  THEN Sink([s EXCEPT ![j] = s[j - 1], ![j - 1] = s[j]], j - 1)
  ELSE s

RECURSIVE InsertionSort(_, _)
InsertionSort(s, i) ==
  IF i > Len(s) THEN s ELSE InsertionSort(Sink(s, i), i + 1)

\* Lines 175-177: sort.Slice.  For a slice of at most 6 elements, which is
\* all the model reaches, every release of package sort runs exactly this
\* insertion sort.
SortSlice(s) == InsertionSort(s, 2)

\* Lines 180-183: every entry followed by "\n".
RECURSIVE ComposeOut(_)
ComposeOut(existing) ==
  IF existing = <<>> THEN ""
  ELSE Head(existing) \o "\n" \o ComposeOut(Tail(existing))

(***************************************************************************)
(* The state.                                                              *)
(*   fs     the directory <out>/<escaped module>/@v: file name -> file     *)
(*   atV    whether that directory exists                                  *)
(*   pc     where each invocation (process) stands in run()                *)
(*   arg    the flags of each invocation                                   *)
(*   loc    the local variables of run/updateListFile/writeFileAtomic      *)
(*   now    the clock time.Now() reads                                     *)
(*   runs, faults   invocations started and faults injected so far         *)
(*   hist   the versions of the invocations that returned nil, in order    *)
(*   pre    the directory as each invocation found it                      *)
(*   prior  whether the invocation that ran before the current one in its  *)
(*          slot returned nil and had the same flags                       *)
(***************************************************************************)
VARIABLES fs, atV, pc, arg, loc, now, runs, faults, hist, pre, prior

vars == <<fs, atV, pc, arg, loc, now, runs, faults, hist, pre, prior>>

\* The steps of the orchestrator, in the order run() takes them.
Order == <<"ValidateInputs", "ReadManifest", "ComputeEscapedPaths",
           "EnsureDirectory", "WriteManifestCopy", "WriteDescriptor",
           "BuildAndPlaceArchive", "UpdateVersionList", "ReportSuccess">>

EmptyDir == [n \in {} |-> [data |-> "", perm |-> 0]]

Put(dir, name, file) ==
  [n \in (DOMAIN dir) \cup {name} |-> IF n = name THEN file ELSE dir[n]]

Del(dir, name) == [n \in (DOMAIN dir) \ {name} |-> dir[n]]

Has(dir, name) == name \in DOMAIN dir

DataOf(dir, name) == IF Has(dir, name) THEN dir[name].data ELSE NoFile

\* What a write that fails part-way leaves of data: a proper prefix (no
\* byte, one byte, or all but the last byte; the program never reads a
\* file it failed to write, so the other lengths behave alike).
Prefixes(data) == {Slice(data, 0, k) : k \in {0, 1, Len(data) - 1}}

NoArg == [src |-> "", version |-> "", out |-> ""]

Loc0 == [rid |-> 0, goModBytes |-> "", modPath |-> "", escVer |-> "",
         ib |-> "", tmpZip |-> "", existing |-> <<>>, out |-> "",
         tmpName |-> "", err |-> "", steps |-> <<>>, summary |-> <<>>]

Stopped == {"idle", "exit", "killed"}

Running == {p \in Procs : pc[p] \notin Stopped}

\* Whether the next filesystem call may be made to fail.
Fails == IF faults < MaxFaults THEN {FALSE, TRUE} ELSE {FALSE}

Fault(fail) == faults' = faults + (IF fail THEN 1 ELSE 0)

Step(p, name) == Append(loc[p].steps, name)

Init ==
  /\ fs = EmptyDir
  /\ atV = FALSE
  /\ pc = [p \in Procs |-> "idle"]
  /\ arg = [p \in Procs |-> NoArg]
  /\ loc = [p \in Procs |-> Loc0]
  /\ now = 0
  /\ runs = 0
  /\ faults = 0
  /\ hist = <<>>
  /\ pre = [p \in Procs |-> [fs |-> EmptyDir, atV |-> FALSE]]
  /\ prior = [p \in Procs |-> FALSE]

(***************************************************************************)
(* run(), lines 37-135.                                                    *)
(***************************************************************************)
\* Lines 39-50: a new process parses its flags and validates them.
ValidateInputs(p, menu, maxActive, maxRuns) ==
  /\ pc[p] \in Stopped
  /\ runs < maxRuns
  /\ Cardinality(Running) < maxActive
  /\ \E a \in menu :
       /\ arg' = [arg EXCEPT ![p] = a]
       /\ loc' = [loc EXCEPT ![p] =
            [Loc0 EXCEPT !.rid = runs + 1,
                         !.steps = <<"ValidateInputs">>,
                         !.err = IF a.src = "" \/ a.version = "" \/ a.out = ""
                                 THEN "required flags: -src, -version, -out"
                                 ELSE IF ~IsValid(a.version)
                                 THEN "invalid version"
                                 ELSE ""]]
       /\ pc' = [pc EXCEPT ![p] = IF loc'[p].err = "" THEN "readmod"
                                  ELSE "exit"]
       /\ prior' = [prior EXCEPT ![p] =
                      /\ pc[p] = "exit"
                      /\ loc[p].summary # <<>>
                      /\ arg[p] = a]
  /\ runs' = runs + 1
  /\ now' = now + 1
  /\ pre' = [pre EXCEPT ![p] = [fs |-> fs, atV |-> atV]]
  /\ UNCHANGED <<fs, atV, faults, hist>>

\* Lines 52-70: read and parse <src>/go.mod.
ReadManifest(p) ==
  /\ pc[p] = "readmod"
  /\ LET bytes == GoModOf(arg[p].src)
         modf  == ModfileParse(bytes)
         err   == IF bytes = NoFile THEN "read go.mod"
                  ELSE IF ~modf.ok THEN "parse go.mod"
                  ELSE IF modf.path = ""
                  THEN "cannot determine module path from go.mod"
                  ELSE ""
     IN  /\ loc' = [loc EXCEPT ![p].steps = Step(p, "ReadManifest"),
                               ![p].err = err,
                               ![p].goModBytes =
                                  IF err = "" THEN bytes ELSE "",
                               ![p].modPath = IF err = "" THEN modf.path
                                              ELSE ""]
         /\ pc' = [pc EXCEPT ![p] = IF err = "" THEN "escape" ELSE "exit"]
  /\ UNCHANGED <<fs, atV, arg, now, runs, faults, hist, pre, prior>>

\* Lines 73-80: module.EscapePath and module.EscapeVersion.
ComputeEscapedPaths(p) ==
  /\ pc[p] = "escape"
  /\ LET ep  == EscapePath(loc[p].modPath)
         ev  == EscapeVersion(arg[p].version)
         err == IF ~ep.ok THEN "escape module path"
                ELSE IF ~ev.ok THEN "escape version" ELSE ""
     IN  /\ loc' = [loc EXCEPT ![p].steps = Step(p, "ComputeEscapedPaths"),
                               ![p].err = err,
                               ![p].escVer = IF err = "" THEN ev.s ELSE ""]
         /\ pc' = [pc EXCEPT ![p] = IF err = "" THEN "mkdir" ELSE "exit"]
  /\ UNCHANGED <<fs, atV, arg, now, runs, faults, hist, pre, prior>>

\* Lines 82-86: os.MkdirAll(atV, dirPerm).
EnsureDirectory(p) ==
  /\ pc[p] = "mkdir"
  /\ \E fail \in Fails :
       /\ Fault(fail)
       /\ atV' = (atV \/ ~fail)
       /\ loc' = [loc EXCEPT ![p].steps = Step(p, "EnsureDirectory"),
                             ![p].err = IF fail THEN "mkdir" ELSE ""]
       /\ pc' = [pc EXCEPT ![p] = IF fail THEN "exit" ELSE "modopen"]
  /\ UNCHANGED <<fs, arg, now, runs, hist, pre, prior>>

\* os.WriteFile opens with O_WRONLY|O_CREATE|O_TRUNC: an existing file is
\* emptied and keeps its mode, a new one gets perm.
Truncated(dir, name, perm) ==
  Put(dir, name, [data |-> "",
                  perm |-> IF Has(dir, name) THEN dir[name].perm ELSE perm])

\* Line 89, os.WriteFile's open of <escVer>.mod.
OpenMod(p) ==
  /\ pc[p] = "modopen"
  /\ \E fail \in Fails :
       /\ Fault(fail)
       /\ fs' = IF fail THEN fs
                ELSE Truncated(fs, loc[p].escVer \o ".mod", filePerm)
       /\ loc' = [loc EXCEPT ![p].steps = Step(p, "WriteManifestCopy"),
                             ![p].err = IF fail THEN "open .mod" ELSE ""]
       /\ pc' = [pc EXCEPT ![p] = IF fail THEN "exit" ELSE "modwrite"]
  /\ UNCHANGED <<atV, arg, now, runs, hist, pre, prior>>

\* A mutant of WriteMod: the error of the write is dropped.
WriteModIgnoringError(p) ==
  /\ pc[p] = "modwrite"
  /\ \E fail \in Fails :
       /\ Fault(fail)
       /\ \E d \in (IF fail THEN Prefixes(loc[p].goModBytes)
                    ELSE {loc[p].goModBytes}) :
            fs' = [fs EXCEPT ![loc[p].escVer \o ".mod"].data = d]
       /\ pc' = [pc EXCEPT ![p] = "infoopen"]
  /\ UNCHANGED <<atV, arg, loc, now, runs, hist, pre, prior>>

\* Line 89, os.WriteFile's write and close of <escVer>.mod.
WriteMod(p) ==
  /\ pc[p] = "modwrite"
  /\ \E fail \in Fails :
       /\ Fault(fail)
       /\ \E d \in (IF fail THEN Prefixes(loc[p].goModBytes)
                    ELSE {loc[p].goModBytes}) :
            fs' = [fs EXCEPT ![loc[p].escVer \o ".mod"].data = d]
       /\ loc' = [loc EXCEPT ![p].err = IF fail THEN "write .mod" ELSE ""]
       /\ pc' = [pc EXCEPT ![p] = IF fail THEN "exit" ELSE "infoopen"]
  /\ UNCHANGED <<atV, arg, now, runs, hist, pre, prior>>

\* Lines 94-99: marshal the descriptor with the current time, then
\* os.WriteFile's open of <escVer>.info.
OpenInfo(p) ==
  /\ pc[p] = "infoopen"
  /\ \E fail \in Fails :
       /\ Fault(fail)
       /\ fs' = IF fail THEN fs
                ELSE Truncated(fs, loc[p].escVer \o ".info", filePerm)
       /\ loc' = [loc EXCEPT ![p].steps = Step(p, "WriteDescriptor"),
                             ![p].ib = InfoBytes(arg[p].version, now),
                             ![p].err = IF fail THEN "open .info" ELSE ""]
       /\ pc' = [pc EXCEPT ![p] = IF fail THEN "exit" ELSE "infowrite"]
  /\ UNCHANGED <<atV, arg, now, runs, hist, pre, prior>>

\* Line 99, os.WriteFile's write and close of <escVer>.info.
WriteInfo(p) ==
  /\ pc[p] = "infowrite"
  /\ \E fail \in Fails :
       /\ Fault(fail)
       /\ \E d \in (IF fail THEN Prefixes(loc[p].ib) ELSE {loc[p].ib}) :
            fs' = [fs EXCEPT ![loc[p].escVer \o ".info"].data = d]
       /\ loc' = [loc EXCEPT ![p].err = IF fail THEN "write .info" ELSE ""]
       /\ pc' = [pc EXCEPT ![p] = IF fail THEN "exit" ELSE "ziptmp"]
  /\ UNCHANGED <<atV, arg, now, runs, hist, pre, prior>>

\* Lines 104-110: os.CreateTemp(atV, "zip-*"); the name is fresh.
CreateZipTemp(p) ==
  /\ pc[p] = "ziptmp"
  /\ \E fail \in Fails :
       /\ Fault(fail)
       /\ LET name == "zip-" \o ToString(loc[p].rid)
          IN  /\ fs' = IF fail THEN fs
                       ELSE Put(fs, name, [data |-> "", perm |-> TempPerm])
              /\ loc' = [loc EXCEPT
                   ![p].steps = Step(p, "BuildAndPlaceArchive"),
                   ![p].tmpZip = IF fail THEN "" ELSE name,
                   ![p].err = IF fail THEN "create temp zip" ELSE ""]
       /\ pc' = [pc EXCEPT ![p] = IF fail THEN "exit" ELSE "zipbuild"]
  /\ UNCHANGED <<atV, arg, now, runs, hist, pre, prior>>

\* Lines 112-114: zip.CreateFromDir writes the archive into the temp file.
BuildZip(p) ==
  /\ pc[p] = "zipbuild"
  /\ \E fail \in Fails :
       /\ Fault(fail)
       /\ LET z == ZipBytes(loc[p].modPath, arg[p].version, arg[p].src)
          IN  \E d \in (IF fail THEN Prefixes(z) ELSE {z}) :
                fs' = [fs EXCEPT ![loc[p].tmpZip].data = d]
       /\ loc' = [loc EXCEPT ![p].err = IF fail THEN "create zip" ELSE ""]
       /\ pc' = [pc EXCEPT ![p] = IF fail THEN "rundefer" ELSE "zipclose"]
  /\ UNCHANGED <<atV, arg, now, runs, hist, pre, prior>>

\* Lines 115-117: tmp.Close().
CloseZip(p) ==
  /\ pc[p] = "zipclose"
  /\ \E fail \in Fails :
       /\ Fault(fail)
       /\ loc' = [loc EXCEPT ![p].err = IF fail THEN "close zip" ELSE ""]
       /\ pc' = [pc EXCEPT ![p] = IF fail THEN "rundefer" ELSE "ziprename"]
  /\ UNCHANGED <<fs, atV, arg, now, runs, hist, pre, prior>>

\* os.Rename(from, to) within the directory: to is replaced in one step.
Renamed(dir, from, to) == Del(Put(dir, to, dir[from]), from)

\* Lines 118-121: os.Rename(tmpZip, <escVer>.zip).
RenameZip(p) ==
  /\ pc[p] = "ziprename"
  /\ \E fail \in Fails :
       /\ Fault(fail)
       /\ fs' = IF fail THEN fs
                ELSE Renamed(fs, loc[p].tmpZip, loc[p].escVer \o ".zip")
       /\ loc' = [loc EXCEPT ![p].err = IF fail THEN "rename zip" ELSE ""]
       /\ pc' = [pc EXCEPT ![p] = IF fail THEN "rundefer" ELSE "listread"]
  /\ UNCHANGED <<atV, arg, now, runs, hist, pre, prior>>

(***************************************************************************)
(* updateListFile(), lines 139-187.                                        *)
(***************************************************************************)
\* Lines 140-163: open and scan @v/list.  The open file is the content
\* the name had at the open; a later rename does not change what is read.
ReadList(p) ==
  /\ pc[p] = "listread"
  /\ \E fail \in Fails :
       /\ Fault(fail)
       /\ loc' = [loc EXCEPT
            ![p].steps = Step(p, "UpdateVersionList"),
            ![p].existing = IF fail \/ ~Has(fs, "list") THEN <<>>
                            ELSE ReadExisting(fs["list"].data),
            ![p].err = IF fail THEN "scan list" ELSE ""]
       /\ pc' = [pc EXCEPT ![p] = IF fail THEN "report" ELSE "listmerge"]
  /\ UNCHANGED <<fs, atV, arg, now, runs, hist, pre, prior>>

\* Lines 165-183: insert the new version if missing, sort, compose.
MergeList(p) ==
  /\ pc[p] = "listmerge"
  /\ LET merged == SortSlice(InsertIfMissing(loc[p].existing,
                                             arg[p].version))
     IN  loc' = [loc EXCEPT ![p].existing = merged,
                            ![p].out = ComposeOut(merged)]
  /\ pc' = [pc EXCEPT ![p] = "createtmp"]
  /\ UNCHANGED <<fs, atV, arg, now, runs, faults, hist, pre, prior>>

(***************************************************************************)
(* writeFileAtomic(atVDir, "list", out, filePerm), lines 190-210.          *)
(***************************************************************************)
\* Lines 191-196: os.CreateTemp(dir, "list.tmp-*"); the name is fresh.
CreateListTemp(p) ==
  /\ pc[p] = "createtmp"
  /\ \E fail \in Fails :
       /\ Fault(fail)
       /\ LET name == "list.tmp-" \o ToString(loc[p].rid)
          IN  /\ fs' = IF fail THEN fs
                       ELSE Put(fs, name, [data |-> "", perm |-> TempPerm])
              /\ loc' = [loc EXCEPT
                   ![p].tmpName = IF fail THEN "" ELSE name,
                   ![p].err = IF fail THEN "create temp list" ELSE ""]
       /\ pc' = [pc EXCEPT ![p] = IF fail THEN "report" ELSE "tmpwrite"]
  /\ UNCHANGED <<atV, arg, now, runs, hist, pre, prior>>

\* A mutant of WriteTemp: the data is written to the list file itself.
WriteInPlace(p) ==
  /\ pc[p] = "tmpwrite"
  /\ \E fail \in Fails :
       /\ Fault(fail)
       /\ \E d \in (IF fail THEN Prefixes(loc[p].out) ELSE {loc[p].out}) :
            fs' = Put(fs, "list", [data |-> d, perm |-> filePerm])
       /\ loc' = [loc EXCEPT ![p].err = IF fail THEN "write list" ELSE ""]
       /\ pc' = [pc EXCEPT ![p] = IF fail THEN "tmpremove" ELSE "tmpchmod"]
  /\ UNCHANGED <<atV, arg, now, runs, hist, pre, prior>>

\* Lines 198-201: tmp.Write(data).
WriteTemp(p) ==
  /\ pc[p] = "tmpwrite"
  /\ \E fail \in Fails :
       /\ Fault(fail)
       /\ \E d \in (IF fail THEN Prefixes(loc[p].out) ELSE {loc[p].out}) :
            fs' = [fs EXCEPT ![loc[p].tmpName].data = d]
       /\ loc' = [loc EXCEPT ![p].err = IF fail THEN "write list" ELSE ""]
       /\ pc' = [pc EXCEPT ![p] = IF fail THEN "tmpremove" ELSE "tmpchmod"]
  /\ UNCHANGED <<atV, arg, now, runs, hist, pre, prior>>

\* Lines 202-205: tmp.Chmod(perm).
ChmodTemp(p) ==
  /\ pc[p] = "tmpchmod"
  /\ \E fail \in Fails :
       /\ Fault(fail)
       /\ fs' = IF fail THEN fs
                ELSE [fs EXCEPT ![loc[p].tmpName].perm = filePerm]
       /\ loc' = [loc EXCEPT ![p].err = IF fail THEN "chmod list" ELSE ""]
       /\ pc' = [pc EXCEPT ![p] = IF fail THEN "tmpremove" ELSE "tmpclose"]
  /\ UNCHANGED <<atV, arg, now, runs, hist, pre, prior>>

\* Lines 206-208: tmp.Close().
CloseTemp(p) ==
  /\ pc[p] = "tmpclose"
  /\ \E fail \in Fails :
       /\ Fault(fail)
       /\ loc' = [loc EXCEPT ![p].err = IF fail THEN "close list" ELSE ""]
       /\ pc' = [pc EXCEPT ![p] = IF fail THEN "tmpremove" ELSE "tmprename"]
  /\ UNCHANGED <<fs, atV, arg, now, runs, hist, pre, prior>>

\* Line 209: os.Rename(tmpName, dir/list).
RenameTemp(p) ==
  /\ pc[p] = "tmprename"
  /\ \E fail \in Fails :
       /\ Fault(fail)
       /\ fs' = IF fail THEN fs ELSE Renamed(fs, loc[p].tmpName, "list")
       /\ loc' = [loc EXCEPT ![p].err = IF fail THEN "rename list" ELSE ""]
       /\ pc' = [pc EXCEPT ![p] = "tmpremove"]
  /\ UNCHANGED <<atV, arg, now, runs, hist, pre, prior>>

\* A mutant of RemoveTemp: the deferred removal is missing.
RemoveTempMissing(p) ==
  /\ pc[p] = "tmpremove"
  /\ pc' = [pc EXCEPT ![p] = "report"]
  /\ UNCHANGED <<fs, atV, arg, loc, now, runs, faults, hist, pre, prior>>

\* Line 196, run when writeFileAtomic returns: os.Remove(tmpName), its
\* error ignored (after a rename the name is gone).
RemoveTemp(p) ==
  /\ pc[p] = "tmpremove"
  /\ fs' = Del(fs, loc[p].tmpName)
  /\ pc' = [pc EXCEPT ![p] = "report"]
  /\ UNCHANGED <<atV, arg, loc, now, runs, faults, hist, pre, prior>>

(***************************************************************************)
(* Back in run(), lines 124-134, and its deferred calls, lines 109-110.    *)
(***************************************************************************)
\* Lines 124-134: wrap the error of updateListFile, or print the summary.
Report(p) ==
  /\ pc[p] = "report"
  /\ IF loc[p].err # ""
     THEN /\ loc' = [loc EXCEPT ![p].err = "update list: " \o loc[p].err]
          /\ hist' = hist
     ELSE /\ loc' = [loc EXCEPT
               ![p].steps = Step(p, "ReportSuccess"),
               ![p].summary = <<loc[p].escVer \o ".mod",
                                loc[p].escVer \o ".info",
                                loc[p].escVer \o ".zip", "list">>]
          /\ hist' = Append(hist, arg[p].version)
  /\ pc' = [pc EXCEPT ![p] = "rundefer"]
  /\ UNCHANGED <<fs, atV, arg, now, runs, faults, pre, prior>>

\* Lines 109-110, run when run() returns: tmp.Close() and
\* os.Remove(tmpZip), errors ignored.
RunDefers(p) ==
  /\ pc[p] = "rundefer"
  /\ fs' = Del(fs, loc[p].tmpZip)
  /\ pc' = [pc EXCEPT ![p] = "exit"]
  /\ UNCHANGED <<atV, arg, loc, now, runs, faults, hist, pre, prior>>

\* The process is killed between two of its steps: nothing deferred runs.
Kill(p) ==
  /\ pc[p] \notin Stopped
  /\ faults < MaxFaults
  /\ faults' = faults + 1
  /\ pc' = [pc EXCEPT ![p] = "killed"]
  /\ UNCHANGED <<fs, atV, arg, loc, now, runs, hist, pre, prior>>

\* One step of run() in the invocation in slot p.
Work(p) ==
  \/ ReadManifest(p)
  \/ ComputeEscapedPaths(p)
  \/ EnsureDirectory(p)
  \/ OpenMod(p)
  \/ WriteMod(p)
  \/ OpenInfo(p)
  \/ WriteInfo(p)
  \/ CreateZipTemp(p)
  \/ BuildZip(p)
  \/ CloseZip(p)
  \/ RenameZip(p)
  \/ ReadList(p)
  \/ MergeList(p)
  \/ CreateListTemp(p)
  \/ WriteTemp(p)
  \/ ChmodTemp(p)
  \/ CloseTemp(p)
  \/ RenameTemp(p)
  \/ RemoveTemp(p)
  \/ Report(p)
  \/ RunDefers(p)

\* One step of the invocation in slot p, or its death.
Proceed(p) ==
  \/ Work(p)
  \/ Kill(p)

\* One invocation at a time, each a new process.
Next ==
  \/ ValidateInputs(1, Invocations, 1, MaxRuns)
  \/ Proceed(1)

Spec == Init /\ [][Next]_vars

(***************************************************************************)
(* Publishing: every command line is valid, one invocation at a time, and  *)
(* no filesystem call fails and no process is killed.                      *)
(***************************************************************************)
PublishInvocations ==
  {Flags("a", v, "out") : v \in {"v1.0.0", "v1.2.0", "v2.0.0-beta", "v1.2"}}

NextPublish ==
  /\ \/ ValidateInputs(1, PublishInvocations, 1, PublishRuns)
     \/ Work(1)
  /\ faults' = faults

SpecPublish == Init /\ [][NextPublish]_vars

(***************************************************************************)
(* A list file of any content is there before the tool first runs.         *)
(***************************************************************************)
PriorLines == {"", "junk", "v1.0.0", "v2.0.0-beta"}

\* The lines, each but the last followed by "\n", the last by term.
RECURSIVE JoinLines(_, _)
JoinLines(ls, term) ==
  IF ls = <<>> THEN ""
  ELSE IF Len(ls) = 1 THEN ls[1] \o term
  ELSE ls[1] \o "\n" \o JoinLines(Tail(ls), term)

PriorLists ==
  {JoinLines(ls, term) :
     ls \in UNION {[1..k -> PriorLines] : k \in 0..MaxPriorLines},
     term \in {"\n", ""}}

InitPre ==
  /\ \E data \in PriorLists :
       fs = Put(EmptyDir, "list", [data |-> data, perm |-> filePerm])
  /\ atV = TRUE
  /\ pc = [p \in Procs |-> "idle"]
  /\ arg = [p \in Procs |-> NoArg]
  /\ loc = [p \in Procs |-> Loc0]
  /\ now = 0
  /\ runs = 0
  /\ faults = 0
  /\ hist = <<>>
  /\ pre = [p \in Procs |-> [fs |-> EmptyDir, atV |-> FALSE]]
  /\ prior = [p \in Procs |-> FALSE]

PreInvocations == {Flags("a", v, "out") : v \in {"v1.0.0", "v1.2"}}

NextPre ==
  \/ ValidateInputs(1, PreInvocations, 1, 1)
  \/ Proceed(1)

SpecPre == InitPre /\ [][NextPre]_vars

(***************************************************************************)
(* Two invocations for the same module, one per process, may run at the    *)
(* same time; no filesystem call fails and no process is killed.           *)
(***************************************************************************)
ConcInvocations == {Flags("a", v, "out") : v \in {"v1.0.0", "v2.0.0-beta"}}

NextConc ==
  /\ \E p \in Procs :
       \/ ValidateInputs(p, ConcInvocations, Cardinality(Procs),
                         Cardinality(Procs))
       \/ Work(p)
  /\ faults' = faults

SpecConc == Init /\ [][NextConc]_vars

(***************************************************************************)
(* Properties.                                                             *)
(***************************************************************************)
TypeOK ==
  /\ atV \in BOOLEAN
  /\ faults \in 0..MaxFaults
  /\ Len(hist) <= runs
  /\ \A p \in Procs : loc[p].rid \in 0..runs

ListData == DataOf(fs, "list")

ListLines == IF Has(fs, "list") THEN ScanLines(fs["list"].data) ELSE <<>>

PreListData(p) == DataOf(pre[p].fs, "list")

PreListLines(p) ==
  IF Has(pre[p].fs, "list") THEN ScanLines(pre[p].fs["list"].data) ELSE <<>>

Range(seq) == {seq[i] : i \in 1..Len(seq)}

Count(x, seq) == Cardinality({i \in 1..Len(seq) : seq[i] = x})

Ascending(ls) == \A i \in 1..(Len(ls) - 1) : Compare(ls[i], ls[i + 1]) <= 0

Succeeded(p) == pc[p] = "exit" /\ loc[p].summary # <<>>

\* Every invocation so far has returned nil.
AllSucceeded == pc[1] = "exit" /\ runs > 0 /\ Len(hist) = runs

\* C1: from an empty output tree, after any sequence of successful
\* invocations the list holds every published version exactly once, in
\* ascending semver order.
C1_ListInvariant ==
  AllSucceeded =>
    /\ Has(fs, "list")
    /\ Range(ListLines) = Range(hist)
    /\ \A v \in Range(hist) : Count(v, ListLines) = 1
    /\ Ascending(ListLines)
    /\ ListData = ComposeOut(ListLines)

\* C1 witness: three or more successful invocations, a version repeated,
\* published out of order, two published versions that compare equal.
C1_Witness ==
  /\ AllSucceeded
  /\ runs >= 3
  /\ \E i, j \in 1..Len(hist) : i < j /\ hist[i] = hist[j]
  /\ Compare(hist[1], hist[2]) > 0
  /\ \E v, w \in Range(hist) : v # w /\ Compare(v, w) = 0

Scenario == <<"v1.2.0", "v1.0.0", "v1.2.0", "v2.0.0-beta">>

ScenarioDone == pc[1] = "exit" /\ hist = Scenario /\ runs = Len(Scenario)

SameButTime(s, t, version) ==
  \E t1, t2 \in 0..runs :
    s = InfoBytes(version, t1) /\ t = InfoBytes(version, t2)

AfterRename == {"tmpremove", "report", "rundefer", "exit", "killed"}

\* C4: at every step of an invocation, killed or not, the list path is
\* as the invocation found it or holds the complete new content.
C4_AtomicList ==
  \A p \in {1} :
    pc[p] # "idle" =>
      \/ ListData = PreListData(p)
      \/ /\ pc[p] \in AfterRename
         /\ loc[p].out # ""
         /\ ListData = loc[p].out
         /\ fs["list"].perm = filePerm

\* C4 witness: the invocation is killed with its temporary file fully
\* written and not yet renamed, and the earlier list is still in place.
C4_Witness ==
  /\ pc[1] = "killed"
  /\ loc[1].tmpName # ""
  /\ Has(fs, loc[1].tmpName)
  /\ fs[loc[1].tmpName].data = loc[1].out
  /\ Has(pre[1].fs, "list")
  /\ ListData = PreListData(1)
  /\ ListData # loc[1].out

\* The number of "." in v before its first "-" or "+".
RECURSIVE CoreDots(_, _)
CoreDots(v, i) ==
  IF i >= Len(v) \/ At(v, i) \in {"-", "+"} THEN 0
  ELSE (IF At(v, i) = "." THEN 1 ELSE 0) + CoreDots(v, i + 1)

\* A semantic version in full: vMAJOR.MINOR.PATCH[-pre][+build].
FullSemver(v) == IsValid(v) /\ CoreDots(v, 0) = 2

BadFlags(a) ==
  a.src = "" \/ a.version = "" \/ a.out = "" \/ ~FullSemver(a.version)

\* C5: with an empty flag or a version that is not a semantic version
\* (1.2.3, v1.2), the run ends in an error and nothing under -out has been
\* created or changed.
C5_RejectBeforeWrite ==
  \A p \in {1} :
    (pc[p] # "idle" /\ BadFlags(arg[p])) =>
      /\ fs = pre[p].fs
      /\ atV = pre[p].atV
      /\ pc[p] = "exit" => loc[p].err # ""

\* What semver.IsValid rejects is rejected before any write (C5 without
\* the shorthand versions vMAJOR and vMAJOR.MINOR).
RejectedByIsValid ==
  \A p \in {1} :
    (pc[p] # "idle"
       /\ (arg[p].src = "" \/ arg[p].out = "" \/ ~IsValid(arg[p].version))) =>
      /\ fs = pre[p].fs
      /\ atV = pre[p].atV
      /\ pc[p] = "exit"
      /\ loc[p].err # ""
      /\ loc[p].steps = <<"ValidateInputs">>

C7_NoDuplicatesSorted ==
  Succeeded(1) =>
    /\ \A l \in Range(ListLines) : Count(l, ListLines) = 1
    /\ Ascending(ListLines)

\* What does hold for any earlier content: the rewritten list is in
\* ascending order and holds the new version exactly once if the old list
\* held it at most once.
SortedWhateverBefore ==
  Succeeded(1) =>
    /\ Ascending(ListLines)
    /\ Count(arg[1].version, PreListLines(1)) <= 1
         => Count(arg[1].version, ListLines) = 1

OwnTemp(p) == "list.tmp-" \o ToString(loc[p].rid)

ListTemps ==
  {n \in DOMAIN fs : Len(n) >= 9 /\ Slice(n, 0, 9) = "list.tmp-"}

WriteErrors == {"create temp list", "write list", "chmod list",
                "close list", "rename list"}

\* The invocation is back from writeFileAtomic.
BackFromWrite(p) ==
  pc[p] = "report" /\ loc[p].err \in WriteErrors \cup {""}

C9_OneWriterWins ==
  (Succeeded(1) /\ Succeeded(2)) =>
    /\ ListData \in {loc[1].out, loc[2].out}
    /\ ListData = ComposeOut(ListLines)
    /\ \E p \in Procs : ListData = loc[p].out /\ arg[p].version \in Range(ListLines)

\* C9 witness, the lost update: both invocations read the list before
\* either renamed, both returned nil, and the version of one of them is
\* not in the list.
C9_LostUpdate ==
  /\ Succeeded(1)
  /\ Succeeded(2)
  /\ arg[1].version # arg[2].version
  /\ loc[1].existing = <<arg[1].version>>
  /\ loc[2].existing = <<arg[2].version>>
  /\ \E p \in Procs : arg[p].version \notin Range(ListLines)

IsPrefix(s, t) == Len(s) <= Len(t) /\ \A i \in 1..Len(s) : s[i] = t[i]

ModInPlace(p) == DataOf(fs, loc[p].escVer \o ".mod") = loc[p].goModBytes

InfoInPlace(p) == DataOf(fs, loc[p].escVer \o ".info") = loc[p].ib

ZipInPlace(p) ==
  DataOf(fs, loc[p].escVer \o ".zip") =
    ZipBytes(loc[p].modPath, arg[p].version, arg[p].src)

\* C10: the steps of an invocation are taken in the fixed order; after a
\* failure no further step is taken and what was written stays; the list
\* gains the version only when .mod, .info and .zip are in place; the
\* summary is printed only when every step succeeded.
C10_Ordering ==
  \A p \in {1} :
    pc[p] # "idle" =>
      LET st == loc[p].steps
          v  == arg[p].version
      IN  /\ st # <<>>
          /\ IsPrefix(st, Order)
          /\ loc[p].err # "" =>
               /\ pc[p] \in {"exit", "report", "tmpremove", "rundefer",
                             "killed"}
               /\ "ReportSuccess" \notin Range(st)
          /\ "WriteDescriptor" \in Range(st) => ModInPlace(p)
          /\ "BuildAndPlaceArchive" \in Range(st) => InfoInPlace(p)
          /\ "UpdateVersionList" \in Range(st) => ZipInPlace(p)
          /\ (v \in Range(ListLines) /\ v \notin Range(PreListLines(p))) =>
               (ModInPlace(p) /\ InfoInPlace(p) /\ ZipInPlace(p))
          /\ loc[p].summary # <<>> <=> "ReportSuccess" \in Range(st)
          /\ loc[p].summary # <<>> =>
               /\ loc[p].err = ""
               /\ st = Order
               /\ v \in Range(ListLines)
               /\ ModInPlace(p) /\ InfoInPlace(p) /\ ZipInPlace(p)
               /\ \A n \in Range(loc[p].summary) : Has(fs, n)

\* C10 witness: the invocation failed in the list update and has ended;
\* .mod, .info and .zip stay, the version is not in the list, and no
\* summary was printed.
C10_Witness ==
  /\ pc[1] = "exit"
  /\ loc[1].err # ""
  /\ loc[1].steps = SubSeq(Order, 1, 8)
  /\ ModInPlace(1) /\ InfoInPlace(1) /\ ZipInPlace(1)
  /\ arg[1].version \notin Range(ListLines)
  /\ loc[1].summary = <<>>

=============================================================================
